---- MODULE Spec2Model ----
(***************************************************************************)
(* authcenter-backend: user accounts, local and Google login, JWT session  *)
(* tokens resolved from a cookie or a bearer header, role-gated account    *)
(* management.  Strings that the code inspects (usernames, emails,         *)
(* passwords, full names) are sequences of one-character strings; time is  *)
(* counted in minutes.                                                     *)
(***************************************************************************)
EXTENDS Integers, Sequences, FiniteSets, TLC

VARIABLES users, nextId, now, steps, tokens, resp, inflight

vars == <<users, nextId, now, steps, tokens, resp, inflight>>

\* ------------------------------------------------------------------ bounds
\* requests served and clock moves in a run
MaxSteps == 4

\* ------------------------------------------------- program constants
ACCESS_TOKEN_EXPIRE_MINUTES == 60
UsernameMinLen == 3
UsernameMaxLen == 50
FullNameMinLen == 2
FullNameMaxLen == 100
PasswordMinLen == 8
PasswordMaxLen == 128
ListLimitMax == 100

\* ------------------------------------------------------------ enumerations
UserRole == {"ADMIN", "MANAGER", "USER", "VIEWER"}
UserStatus == {"ACTIVE", "INACTIVE", "SUSPENDED", "PENDING"}

\* ------------------------------------------------------------------ strings
UpperLetters == <<"A","B","C","D","E","F","G","H","I","J","K","L","M",
                  "N","O","P","Q","R","S","T","U","V","W","X","Y","Z">>
LowerLetters == <<"a","b","c","d","e","f","g","h","i","j","k","l","m",
                  "n","o","p","q","r","s","t","u","v","w","x","y","z">>
Digits == {"0","1","2","3","4","5","6","7","8","9"}

IsUpper(c) == \E i \in DOMAIN UpperLetters : UpperLetters[i] = c
IsLower(c) == \E i \in DOMAIN LowerLetters : LowerLetters[i] = c
IsDigit(c) == c \in Digits

\* str.lower(), one character
LowerChar(c) ==
    IF IsUpper(c)
    THEN LowerLetters[CHOOSE i \in DOMAIN UpperLetters : UpperLetters[i] = c]
    ELSE c

\* str.lower()
StrLower(s) == [i \in DOMAIN s |-> LowerChar(s[i])]

\* email.split("@")[0]
SplitAtFirst(s) ==
    LET ats == {i \in DOMAIN s : s[i] = "@"}
    IN  IF ats = {} THEN s
        ELSE SubSeq(s, 1, (CHOOSE i \in ats : \A j \in ats : i <= j) - 1)

\* the strings the requests of the model carry
S_hernan == <<"h","e","r","n","a","n">>
S_bob == <<"b","o","b">>
S_Bob == <<"B","o","b">>
S_bad == <<"b","@","b">>
E_hernan == <<"h","e","r","n","a","n","@","g">>
E_bob == <<"b","o","b","@","x">>
E_Bob == <<"B","o","b","@","x">>
E_amy == <<"a","m","y","@","x">>
P_admin == <<"1","2","3","4","5","6","7","8","9">>
P_good == <<"P","a","s","s","w","0","r","d">>
P_weak == <<"p","a","s","s","w","o","r","d">>
P_sentinel == <<"g","o","o","g","l","e","-","o","a","u","t","h">>
N_hernan == <<"H","e","r","n","a","n">>
N_bob == <<"B","o","b","b","y">>
N_short == <<"X">>
N_new == <<"X","y">>

\* --------------------------------------------------------- absent values
\* None from Query.first(); ids of stored rows are 1, 2, ...
NoUser == 0
\* last_login of a row that never logged in (NULL)
NoTime == -1

\* id of a stored row as the string the token carries: str(user.id)
IdStr(id) == <<"uuid", id>>

\* ------------------------------------------------------------ passwords
\* get_password_hash: bcrypt hash of the plaintext under a salt
get_password_hash(password, salt) ==
    [kind |-> "bcrypt", plain |-> password, salt |-> salt]

\* the literal stored for accounts provisioned by Google login
GoogleSentinelHash == [kind |-> "raw", plain |-> P_sentinel, salt |-> 0]

\* verify_password as a comparison of the plaintext with what is stored
verify_password_plain(plain_password, hashed_password) ==
    plain_password = hashed_password.plain

\* verify_password: bcrypt.checkpw, any exception (malformed hash) gives False
verify_password(plain_password, hashed_password) ==
    IF hashed_password.kind = "bcrypt"
    THEN plain_password = hashed_password.plain
    ELSE FALSE

\* --------------------------------------------------------------- tokens
\* a JWT: the payload's sub and exp, and whether the signature verifies
\* under SECRET_KEY
NoTok == [sub |-> <<>>, exp |-> 0, sig |-> "none"]

\* timedelta argument of create_access_token: None, or a number of minutes
NoDelta == [given |-> FALSE, minutes |-> 0]
Delta(m) == [given |-> TRUE, minutes |-> m]

\* `if expires_delta:` a timedelta is falsy when it is None or zero
DeltaTruthy(expires_delta) == expires_delta.given /\ expires_delta.minutes # 0

\* create_access_token with the lifetime subtracted instead of added
create_access_token_backdated(subject, expires_delta, t) ==
    [sub |-> IdStr(subject), exp |-> t - ACCESS_TOKEN_EXPIRE_MINUTES, sig |-> "ok"]

create_access_token(subject, expires_delta, t) ==
    LET expire == IF DeltaTruthy(expires_delta)
                  THEN t + expires_delta.minutes
                  ELSE t + ACCESS_TOKEN_EXPIRE_MINUTES
    IN  [sub |-> IdStr(subject), exp |-> expire, sig |-> "ok"]

\* the sub of a payload without one, and of a token that does not decode
NoSub == <<>>

\* jwt.decode: the signature must verify and exp must not lie before the
\* clock.  JWTError otherwise.
jwt_decode_ok(token, t) ==
    /\ token.sig = "ok"
    /\ ~(token.exp < t)

\* the try block of get_current_user: the sub of the decoded payload, or
\* NoSub where it raises credentials_exception
token_subject(token, t) ==
    IF jwt_decode_ok(token, t) THEN token.sub ELSE NoSub

\* ------------------------------------------------- identity resolution
\* a credential channel: absent, present with an empty value, or a token
Absent == [kind |-> "absent", tok |-> NoTok]
Empty == [kind |-> "empty", tok |-> NoTok]
Carry(t) == [kind |-> "value", tok |-> t]

\* `not token` on request.cookies.get("access_token")
Falsy(channel) == channel.kind \in {"absent", "empty"}

\* the scheme with the channels in the other order: the header first
oauth2_scheme_header_first(cookie, bearer) ==
    IF bearer.kind # "absent" THEN [code |-> 200, tok |-> bearer.tok]
    ELSE IF ~Falsy(cookie) THEN [code |-> 200, tok |-> cookie.tok]
    ELSE [code |-> 401, tok |-> NoTok]

\* OAuth2PasswordBearerWithCookie.__call__: the cookie, else the bearer
\* header; 401 when the header is missing too
oauth2_scheme(cookie, bearer) ==
    IF ~Falsy(cookie) THEN [code |-> 200, tok |-> cookie.tok]
    ELSE IF bearer.kind = "absent" THEN [code |-> 401, tok |-> NoTok]
    ELSE [code |-> 200, tok |-> bearer.tok]

\* db.query(User).filter(User.id == user_id).first()
FindById(db, sub) ==
    IF \E id \in DOMAIN db : IdStr(id) = sub
    THEN CHOOSE id \in DOMAIN db : IdStr(id) = sub
    ELSE NoUser

\* get_current_user: 401 unless the token decodes and its subject exists
get_current_user(db, cookie, bearer, t) ==
    LET got == oauth2_scheme(cookie, bearer)
    IN  IF got.code # 200 THEN [code |-> 401, user |-> NoUser]
        ELSE IF token_subject(got.tok, t) = NoSub THEN [code |-> 401, user |-> NoUser]
        ELSE IF FindById(db, token_subject(got.tok, t)) = NoUser
             THEN [code |-> 401, user |-> NoUser]
        ELSE [code |-> 200, user |-> FindById(db, token_subject(got.tok, t))]

\* get_current_active_user without its is_active test
get_current_active_user_ungated(db, cookie, bearer, t) ==
    get_current_user(db, cookie, bearer, t)

\* get_current_active_user: 403 when the resolved account is not is_active
get_current_active_user(db, cookie, bearer, t) ==
    LET cur == get_current_user(db, cookie, bearer, t)
    IN  IF cur.code # 200 THEN cur
        ELSE IF ~db[cur.user].is_active THEN [code |-> 403, user |-> cur.user]
        ELSE cur

\* User.can_login
can_login(u) == u.is_active /\ u.status = "ACTIVE" /\ ~u.is_locked

\* --------------------------------------------------------- the store
\* a row of table users (models/user.py); id is the key of `users`
Row(username, email, full_name, password_hash, role, status, is_active) ==
    [username |-> username, email |-> email, full_name |-> full_name,
     password_hash |-> password_hash, role |-> role, status |-> status,
     is_active |-> is_active, is_locked |-> FALSE,
     failed_login_attempts |-> "0", last_login |-> NoTime]

\* add a row under a fresh id to the store
Insert(db, id, row) == [i \in DOMAIN db \cup {id} |-> IF i = id THEN row ELSE db[i]]

\* unique=True on username and on email: what a commit refuses
UniqueOk(db) ==
    \A i, j \in DOMAIN db :
        i # j => db[i].username # db[j].username /\ db[i].email # db[j].email

\* ------------------------------------------------------- request fields
\* a field of a JSON body: not sent, sent as null, or sent with a value
Unset == <<"unset">>
Null == <<"null">>
Val(v) == <<"val", v>>
IsVal(f) == f[1] = "val"


\* ---------------------------------------------------------- responses
\* what a handler does with a request: the status code, the store after
\* it, the account the credentials resolved to, the account in the response
\* body, the access_token in it and the token set_auth_cookie plants
Outcome(code, db, actor, user, token, set_cookie) ==
    [code |-> code, db |-> db, actor |-> actor, user |-> user,
     token |-> token, set_cookie |-> set_cookie]

\* a request refused with `code`: nothing is stored, issued or planted
Refuse(code, db, actor) == Outcome(code, db, actor, NoUser, NoTok, NoTok)

\* login succeeded for row id: the token is issued and planted as cookie
Granted(db, id, t) ==
    LET access_token == create_access_token(id, NoDelta, t)
    IN  Outcome(200, db, NoUser, id, access_token, access_token)

\* ------------------------------------------------------------- auth.py
\* `if not user.is_active` of login
LoginGate(u) == u.is_active

\* login that stamps last_login before it verifies the password
LoginAs_stamp_first(db, id, password, t) ==
    IF ~verify_password(password, db[id].password_hash)
    THEN Refuse(401, [db EXCEPT ![id].last_login = t], NoUser)
    ELSE IF ~LoginGate(db[id]) THEN Refuse(403, db, NoUser)
    ELSE Granted([db EXCEPT ![id].last_login = t], id, t)

\* login, once the query has picked row id
LoginAs(db, id, password, t) ==
    IF ~verify_password(password, db[id].password_hash) THEN Refuse(401, db, NoUser)
    ELSE IF ~LoginGate(db[id]) THEN Refuse(403, db, NoUser)
    ELSE Granted([db EXCEPT ![id].last_login = t], id, t)

\* POST /auth/login: the outcomes, one per row .first() may pick
login(db, username, password, t) ==
    LET found == {i \in DOMAIN db :
                     db[i].username = username \/ db[i].email = username}
    IN  IF found = {} THEN {Refuse(401, db, NoUser)}
        ELSE {LoginAs(db, id, password, t) : id \in found}

\* what delete_cookie leaves in the response: the access_token cookie
\* with no value, already expired
ClearedCookie == [sub |-> <<>>, exp |-> 0, sig |-> "deleted"]

\* logout that answers as an endpoint behind the credentials would
logout_refused(db) == Refuse(401, db, NoUser)

\* POST /auth/logout: no credentials are read and nothing is stored
logout(db) == Outcome(200, db, NoUser, NoUser, NoTok, ClearedCookie)

\* POST /auth/login-form
login_form(db, username, password, t) ==
    LET found == {i \in DOMAIN db : db[i].username = username}
    IN  IF found = {} THEN {Refuse(401, db, NoUser)}
        ELSE {IF ~verify_password(password, db[id].password_hash)
              THEN Refuse(401, db, NoUser)
              ELSE Granted(db, id, t) : id \in found}

\* the account google_login provisions for an unknown email
Provisioned(email, name) ==
    LET username_suggested == SplitAtFirst(email)
    IN  Row(username_suggested, email,
            IF IsVal(name) THEN name[2] ELSE username_suggested,
            GoogleSentinelHash, "USER", "ACTIVE", TRUE)

\* google_login, once the row of the email is known
GoogleSession(db, id, t) == Granted([db EXCEPT ![id].last_login = t], id, t)

\* POST /auth/google.  g is what the code exchange and the id-token
\* verification hand back: a failure, or id_info with or without email and
\* name.  new_id is the id a provisioned row gets.
google_login(db, new_id, g, t) ==
    IF ~g.ok \/ ~IsVal(g.email) THEN {Refuse(400, db, NoUser)}
    ELSE LET email == g.email[2]
             found == {i \in DOMAIN db : db[i].email = email}
             added == Insert(db, new_id, Provisioned(email, g.name))
         IN  IF found # {} THEN {GoogleSession(db, id, t) : id \in found}
             ELSE IF ~UniqueOk(added) THEN {Refuse(400, db, NoUser)}
             ELSE {GoogleSession(added, new_id, t)}

\* ---------------------------------------------------------- schemas/user.py
UsernameChars ==
    {UpperLetters[i] : i \in DOMAIN UpperLetters}
    \cup {LowerLetters[i] : i \in DOMAIN LowerLetters}
    \cup Digits \cup {"_", "-"}

\* UserBase.username: the length limits and the charset it must match
UsernameValid(v) ==
    /\ Len(v) >= UsernameMinLen /\ Len(v) <= UsernameMaxLen
    /\ \A i \in DOMAIN v : v[i] \in UsernameChars

\* UserBase.validate_username: what the validator returns
validate_username(v) == StrLower(v)

\* UserCreate.validate_password and the length limits of the field
validate_password(v) ==
    /\ Len(v) >= PasswordMinLen /\ Len(v) <= PasswordMaxLen
    /\ \E i \in DOMAIN v : IsUpper(v[i])
    /\ \E i \in DOMAIN v : IsLower(v[i])
    /\ \E i \in DOMAIN v : IsDigit(v[i])

FullNameValid(v) == Len(v) >= FullNameMinLen /\ Len(v) <= FullNameMaxLen

\* UserCreate: whether the body passes validation
UserCreateValid(user_in) ==
    /\ UsernameValid(user_in.username)
    /\ FullNameValid(user_in.full_name)
    /\ validate_password(user_in.password)
    /\ user_in.confirm_password = user_in.password

\* UserUpdate: every field optional; a value of full_name obeys its limits
UserUpdateValid(user_in) ==
    IsVal(user_in.full_name) => FullNameValid(user_in.full_name[2])

\* ------------------------------------------------------------- users.py
\* the fields UserCreate declares; pydantic ignores any other field of
\* the JSON body
UserCreateFields ==
    {"username", "email", "full_name", "role", "password", "confirm_password"}

\* user_in.model_dump(): the declared fields, the username as validated
model_dump(user_in) ==
    [f \in UserCreateFields |->
        IF f = "username" THEN validate_username(user_in[f]) ELSE user_in[f]]

\* an attribute of User(**user_data) before the flush: the keyword when one
\* was passed, None otherwise
Attribute(user_data, f) ==
    IF f \in DOMAIN user_data THEN Val(user_data[f]) ELSE Null

\* the row create_user builds: `if user.status == UserStatus.ACTIVE` sets
\* is_active, and the column defaults (PENDING, False) fill what is None
\* on insert
NewUser(user_in, salt) ==
    LET user_data == model_dump(user_in)
        status == Attribute(user_data, "status")
        is_active == IF status = Val("ACTIVE") THEN Val(TRUE)
                     ELSE Attribute(user_data, "is_active")
    IN  Row(user_data.username, user_data.email, user_data.full_name,
            get_password_hash(user_data.password, salt), user_data.role,
            IF IsVal(status) THEN status[2] ELSE "PENDING",
            IF IsVal(is_active) THEN is_active[2] ELSE FALSE)

\* POST /users/
create_user(db, new_id, cookie, bearer, body, salt, t) ==
    LET cur == get_current_active_user(db, cookie, bearer, t)
        username == validate_username(body.username)
    IN  IF cur.code # 200 THEN Refuse(cur.code, db, cur.user)
        ELSE IF ~UserCreateValid(body) THEN Refuse(422, db, cur.user)
        ELSE IF db[cur.user].role # "ADMIN" THEN Refuse(403, db, cur.user)
        ELSE IF \E i \in DOMAIN db : db[i].username = username
             THEN Refuse(400, db, cur.user)
        ELSE IF \E i \in DOMAIN db : db[i].email = body.email
             THEN Refuse(400, db, cur.user)
        ELSE Outcome(200, Insert(db, new_id, NewUser(body, salt)), cur.user,
                     new_id, NoTok, NoTok)

\* User.username.ilike('%pat%'): pat occurs in s ignoring case, where _ in
\* pat stands for any one character
ILikeContains(s, pat) ==
    \E i \in 0..(Len(s) - Len(pat)) :
      \A k \in 1..Len(pat) :
        pat[k] = "_" \/ LowerChar(pat[k]) = LowerChar(s[i + k])

\* Query(0, ge=0) and Query(100, ge=1, le=100)
ListQueryValid(skip, limit) == skip >= 0 /\ limit >= 1 /\ limit <= ListLimitMax

\* the rows of list_users once `search` and `role` have filtered the query
ListMatching(db, search, role) ==
    {i \in DOMAIN db :
       /\ (IsVal(search) /\ search[2] # <<>>) =>
            \/ ILikeContains(db[i].username, search[2])
            \/ ILikeContains(db[i].email, search[2])
            \/ ILikeContains(db[i].full_name, search[2])
       /\ IsVal(role) => db[i].role = role[2]}

\* what list_users answers: the status code and the rows in the body
Listing(code, actor, rows) == [code |-> code, actor |-> actor, rows |-> rows]

\* GET /users/: one outcome per page offset/limit may cut from the
\* unordered query
list_users(db, cookie, bearer, skip, limit, search, role, t) ==
    LET cur == get_current_active_user(db, cookie, bearer, t)
        matching == ListMatching(db, search, role)
        left == IF Cardinality(matching) > skip
                THEN Cardinality(matching) - skip ELSE 0
        size == IF limit < left THEN limit ELSE left
    IN  IF cur.code # 200 THEN {Listing(cur.code, cur.user, {})}
        ELSE IF ~ListQueryValid(skip, limit) THEN {Listing(422, cur.user, {})}
        ELSE IF db[cur.user].role \notin {"ADMIN", "MANAGER"}
             THEN {Listing(403, cur.user, {})}
        ELSE {Listing(200, cur.user, rows) :
                rows \in {r \in SUBSET matching : Cardinality(r) = size}}

\* create_user up to its two existence queries: the refusal, or 200 when
\* the request goes on to build the row and commit
create_user_checks(db, cookie, bearer, body, t) ==
    LET cur == get_current_active_user(db, cookie, bearer, t)
        username == validate_username(body.username)
    IN  IF cur.code # 200 THEN Refuse(cur.code, db, cur.user)
        ELSE IF ~UserCreateValid(body) THEN Refuse(422, db, cur.user)
        ELSE IF db[cur.user].role # "ADMIN" THEN Refuse(403, db, cur.user)
        ELSE IF \E i \in DOMAIN db : db[i].username = username
             THEN Refuse(400, db, cur.user)
        ELSE IF \E i \in DOMAIN db : db[i].email = body.email
             THEN Refuse(400, db, cur.user)
        ELSE Outcome(200, db, cur.user, NoUser, NoTok, NoTok)

\* create_user from db.add to the return, on the store as it is when the
\* commit runs: the unique indexes refuse the row and the IntegrityError
\* leaves the handler uncaught
create_user_commit(db, new_id, actor, body, salt) ==
    LET added == Insert(db, new_id, NewUser(body, salt))
    IN  IF UniqueOk(added)
        THEN Outcome(200, added, actor, new_id, NoTok, NoTok)
        ELSE Refuse(500, db, actor)

\* GET /users/me
read_user_me(db, cookie, bearer, t) ==
    LET cur == get_current_active_user(db, cookie, bearer, t)
    IN  IF cur.code # 200 THEN Refuse(cur.code, db, cur.user)
        ELSE Outcome(200, db, cur.user, cur.user, NoTok, NoTok)

\* a body of PUT /users/{id}
Patch(email, full_name, role, status, is_active) ==
    [email |-> email, full_name |-> full_name, role |-> role,
     status |-> status, is_active |-> is_active]

ProtectedFields == {"role", "status", "is_active"}
PatchFields == {"email", "full_name", "role", "status", "is_active"}

\* update_data without the stripping of the protected fields
update_data_unstripped(user_in, is_admin) ==
    {f \in PatchFields : user_in[f] # Unset}

\* model_dump(exclude_unset=True), less the protected fields for a caller
\* who is not ADMIN: the fields that are written
update_data(user_in, is_admin) ==
    {f \in PatchFields :
        /\ user_in[f] # Unset
        /\ (is_admin \/ f \notin ProtectedFields)}

\* setattr(user, field, value) for every field of update_data that
\* carries a value
Apply(row, user_in, fields) ==
    [f \in DOMAIN row |->
        IF f \in fields /\ IsVal(user_in[f]) THEN user_in[f][2] ELSE row[f]]

\* nullable=False on the written columns: a field set to None fails the commit
NotNullOk(user_in, fields) == \A f \in fields : user_in[f] # Null

\* PUT /users/{user_id}
update_user(db, cookie, bearer, user_id, user_in, t) ==
    LET cur == get_current_active_user(db, cookie, bearer, t)
    IN  IF cur.code # 200 THEN Refuse(cur.code, db, cur.user)
        ELSE IF ~UserUpdateValid(user_in) THEN Refuse(422, db, cur.user)
        ELSE IF user_id \notin DOMAIN db THEN Refuse(404, db, cur.user)
        ELSE IF db[cur.user].role # "ADMIN" /\ cur.user # user_id
             THEN Refuse(403, db, cur.user)
        ELSE LET fields == update_data(user_in, db[cur.user].role = "ADMIN")
                 written == [db EXCEPT ![user_id] = Apply(db[user_id], user_in, fields)]
             IN  IF ~NotNullOk(user_in, fields) \/ ~UniqueOk(written)
                 THEN Refuse(500, db, cur.user)
                 ELSE Outcome(200, written, cur.user, user_id, NoTok, NoTok)

\* the soft delete that clears the flag and forgets the status
SoftDelete_flag_only(db, user_id) == [db EXCEPT ![user_id].is_active = FALSE]

\* the soft delete: the row stays, inactive
SoftDelete(db, user_id) ==
    [db EXCEPT ![user_id].is_active = FALSE, ![user_id].status = "INACTIVE"]

\* delete_user without the test that refuses the caller's own id
delete_user_no_self_check(db, cookie, bearer, user_id, t) ==
    LET cur == get_current_active_user(db, cookie, bearer, t)
    IN  IF cur.code # 200 THEN Refuse(cur.code, db, cur.user)
        ELSE IF db[cur.user].role # "ADMIN" THEN Refuse(403, db, cur.user)
        ELSE IF user_id \notin DOMAIN db THEN Refuse(404, db, cur.user)
        ELSE Outcome(200, SoftDelete(db, user_id), cur.user, user_id, NoTok, NoTok)

\* DELETE /users/{user_id}
delete_user(db, cookie, bearer, user_id, t) ==
    LET cur == get_current_active_user(db, cookie, bearer, t)
    IN  IF cur.code # 200 THEN Refuse(cur.code, db, cur.user)
        ELSE IF db[cur.user].role # "ADMIN" THEN Refuse(403, db, cur.user)
        ELSE IF cur.user = user_id THEN Refuse(400, db, cur.user)
        ELSE IF user_id \notin DOMAIN db THEN Refuse(404, db, cur.user)
        ELSE Outcome(200, SoftDelete(db, user_id), cur.user, user_id, NoTok, NoTok)

\* ------------------------------------------------------------ content.py
\* a Python value with its type: a member of the Enum UserRole, or a str
EnumMember(name) == [type |-> "UserRole", value |-> name]
StrValue(v) == [type |-> "str", value |-> v]

\* a != b between Python values: UserRole is a plain Enum, whose members
\* equal nothing but themselves
PyNotEqual(a, b) == a # b

\* POST /update-homepage: behind get_current_user, then the role is
\* compared with the string "ADMIN"
update_homepage(db, cookie, bearer, t) ==
    LET cur == get_current_user(db, cookie, bearer, t)
    IN  IF cur.code # 200 THEN Refuse(cur.code, db, cur.user)
        ELSE IF PyNotEqual(EnumMember(db[cur.user].role), StrValue("ADMIN"))
             THEN Refuse(403, db, cur.user)
        ELSE Outcome(200, db, cur.user, NoUser, NoTok, NoTok)

\* ----------------------------------------------------------- fix_user.py
\* fix_my_user: delete the row named hernan, then add it again as an
\* active ADMIN; the second commit fails when the email is taken
fix_my_user(db, new_id) ==
    LET old == {i \in DOMAIN db : db[i].username = S_hernan}
        kept == [i \in DOMAIN db \ old |-> db[i]]
        added == Insert(kept, new_id,
                        Row(S_hernan, E_hernan, N_hernan,
                            get_password_hash(P_admin, 1), "ADMIN", "ACTIVE", TRUE))
    IN  IF UniqueOk(added) THEN added ELSE kept

\* ------------------------------------------------------ the requests sent
LoginNames == {S_hernan, S_bob, E_bob}
LoginPasswords == {P_admin, P_good}

GoogleResults ==
    { [ok |-> FALSE, email |-> Unset, name |-> Unset],
      [ok |-> TRUE, email |-> Unset, name |-> Val(N_bob)],
      [ok |-> TRUE, email |-> Val(E_bob), name |-> Unset],
      [ok |-> TRUE, email |-> Val(E_Bob), name |-> Val(N_bob)] }

CreateBody(username, email, password) ==
    [username |-> username, email |-> email, full_name |-> N_bob,
     role |-> "VIEWER", password |-> password, confirm_password |-> P_good]

\* a JSON body that also asks for a status
WithStatus(body, status) ==
    [f \in DOMAIN body \cup {"status"} |-> IF f = "status" THEN status ELSE body[f]]

CreateBodies ==
    {CreateBody(u, e, P_good) : u \in {S_bob, S_Bob}, e \in {E_bob, E_amy}}
    \cup {CreateBody(S_bad, E_amy, P_good), CreateBody(S_bob, E_amy, P_weak)}
    \cup {WithStatus(CreateBody(S_bob, E_bob, P_good), "ACTIVE")}

Salts == {1}

\* the query parameters of GET /users/
ListQuery(skip, limit, search, role) ==
    [skip |-> skip, limit |-> limit, search |-> search, role |-> role]

ListQueries ==
    { ListQuery(0, ListLimitMax, Unset, Unset),
      ListQuery(1, 1, Unset, Unset),
      ListQuery(0, 0, Unset, Unset),
      ListQuery(0, ListLimitMax, Val(<<>>), Val("USER")),
      ListQuery(0, ListLimitMax, Val(<<"B", "_", "b">>), Unset),
      ListQuery(0, 1, Val(<<"B", "_", "b">>), Val("USER")) }

Patches ==
    { Patch(Unset, Val(N_new), Val("ADMIN"), Unset, Unset),
      Patch(Unset, Unset, Unset, Val("ACTIVE"), Val(TRUE)),
      Patch(Unset, Unset, Unset, Unset, Val(FALSE)),
      Patch(Unset, Unset, Unset, Val("SUSPENDED"), Unset),
      Patch(Val(E_amy), Unset, Val("MANAGER"), Unset, Unset),
      Patch(Unset, Null, Unset, Unset, Unset),
      Patch(Unset, Val(N_short), Unset, Unset, Unset) }

\* a token signed with another key, naming account 1
Forged == [sub |-> IdStr(1), exp |-> 1000000, sig |-> "bad"]

\* a token issued: the token, the account and the lifetime asked for,
\* the time of issue
Issued(tok, subject, expires_delta, t) ==
    [tok |-> tok, subject |-> subject, expires_delta |-> expires_delta, at |-> t]

\* the tokens a client can present: those issued so far, or a forgery
Presentable(held) == {r.tok : r \in held} \cup {Forged}

\* a credential channel of an arbitrary client
Channels(held) == {Absent, Empty} \cup {Carry(x) : x \in Presentable(held)}

\* the cookie of a browser session
SessionCookies(held) == {Absent} \cup {Carry(x) : x \in Presentable(held)}

\* clients keep the tokens issued to them
Remember(held, o, t) ==
    IF o.token # NoTok THEN held \cup {Issued(o.token, o.user, NoDelta, t)} ELSE held

\* ------------------------------------------------------- the state machine
\* the last request served and its response; target is the id in the path
Response(op, target, o) ==
    [op |-> op, target |-> target, code |-> o.code, actor |-> o.actor,
     user |-> o.user, token |-> o.token, set_cookie |-> o.set_cookie]

\* the store is empty, or fix_user.py has been run on it once
Init ==
    /\ users \in {<<>>, fix_my_user(<<>>, 1)}
    /\ nextId = Len(users) + 1
    /\ now = 0
    /\ steps = 0
    /\ tokens = {}
    /\ resp = Response("none", NoUser, Refuse(0, <<>>, NoUser))
    /\ inflight = {}

\* the handler's outcome o takes effect; a new row uses up nextId
Serve(op, target, o) ==
    /\ steps < MaxSteps
    /\ steps' = steps + 1
    /\ users' = o.db
    /\ nextId' = IF nextId \in DOMAIN o.db THEN nextId + 1 ELSE nextId
    /\ tokens' = Remember(tokens, o, now)
    /\ resp' = Response(op, target, o)
    /\ UNCHANGED <<now, inflight>>

\* the clock moves past the lifetime of the tokens issued so far
Tick ==
    /\ steps < MaxSteps
    /\ steps' = steps + 1
    /\ now' = now + ACCESS_TOKEN_EXPIRE_MINUTES + 1
    /\ UNCHANGED <<users, nextId, tokens, resp, inflight>>

FixMyUser ==
    Serve("fix_my_user", NoUser, Outcome(0, fix_my_user(users, nextId), NoUser, NoUser,
                                 NoTok, NoTok))

Login ==
    \E username \in LoginNames, password \in LoginPasswords :
      \E o \in login(users, username, password, now) : Serve("login", NoUser, o)

LoginForm ==
    \E username \in LoginNames, password \in LoginPasswords :
      \E o \in login_form(users, username, password, now) : Serve("login_form", NoUser, o)

GoogleLogin ==
    \E g \in GoogleResults :
      \E o \in google_login(users, nextId, g, now) : Serve("google_login", NoUser, o)

CreateUser ==
    \E cookie \in SessionCookies(tokens), body \in CreateBodies, salt \in Salts :
      Serve("create_user", NoUser, create_user(users, nextId, cookie, Absent, body, salt, now))

ReadUserMe ==
    \E cookie \in Channels(tokens), bearer \in Channels(tokens) :
      Serve("read_user_me", NoUser, read_user_me(users, cookie, bearer, now))

UpdateUser ==
    \E cookie \in SessionCookies(tokens), user_id \in 1..nextId, user_in \in Patches :
      Serve("update_user", user_id, update_user(users, cookie, Absent, user_id, user_in, now))

DeleteUser ==
    \E cookie \in SessionCookies(tokens), user_id \in 1..nextId :
      Serve("delete_user", user_id, delete_user(users, cookie, Absent, user_id, now))

Logout == Serve("logout", NoUser, logout(users))

ListUsers ==
    \E cookie \in SessionCookies(tokens), q \in ListQueries :
      \E l \in list_users(users, cookie, Absent, q.skip, q.limit, q.search, q.role, now) :
        Serve("list_users", NoUser,
              Outcome(l.code, users, l.actor, NoUser, NoTok, NoTok))

UpdateHomepage ==
    \E cookie \in SessionCookies(tokens) :
      Serve("update_homepage", NoUser, update_homepage(users, cookie, Absent, now))

Next ==
    \/ Tick
    \/ FixMyUser
    \/ Login
    \/ LoginForm
    \/ GoogleLogin
    \/ CreateUser
    \/ ReadUserMe
    \/ UpdateUser
    \/ DeleteUser
    \/ Logout
    \/ ListUsers
    \/ UpdateHomepage

Spec == Init /\ [][Next]_vars

\* ------------------------------------------- the token service on its own
Subjects == {1, 2}
Deltas == {NoDelta} \cup {Delta(m) : m \in {-1, 0, 1, 2}}

\* create_access_token(subject, expires_delta) called at the current time
IssueToken ==
    \E subject \in Subjects, expires_delta \in Deltas :
      LET tok == create_access_token(subject, expires_delta, now)
      IN  /\ steps < MaxSteps
          /\ steps' = steps + 1
          /\ tokens' = tokens \cup {Issued(tok, subject, expires_delta, now)}
          /\ resp' = Response("create_access_token", NoUser,
                              Outcome(200, users, NoUser, subject, tok, NoTok))
          /\ UNCHANGED <<users, nextId, now, inflight>>

\* the clock moves a minute, or a default lifetime
TokenTick ==
    \E d \in {1, ACCESS_TOKEN_EXPIRE_MINUTES} :
      /\ steps < MaxSteps
      /\ steps' = steps + 1
      /\ now' = now + d
      /\ UNCHANGED <<users, nextId, tokens, resp, inflight>>

\* a token issued earlier is decoded
DecodeToken ==
    \E r \in tokens :
      /\ steps < MaxSteps
      /\ steps' = steps + 1
      /\ resp' = Response("decode", NoUser,
                    Outcome(IF token_subject(r.tok, now) = NoSub THEN 401 ELSE 200,
                            users, NoUser, r.subject, r.tok, NoTok))
      /\ UNCHANGED <<users, nextId, now, tokens, inflight>>

NextToken == IssueToken \/ TokenTick \/ DecodeToken

SpecToken == Init /\ [][NextToken]_vars

\* ----------------------------------- create requests served concurrently
\* a create request that has passed its existence queries and not yet
\* committed
Pending(req, actor, body, salt) ==
    [req |-> req, actor |-> actor, body |-> body, salt |-> salt]

\* a create request runs up to its existence queries; refused there it is
\* answered at once, otherwise it waits for its commit
CreateBegin ==
    \E cookie \in SessionCookies(tokens), body \in CreateBodies, salt \in Salts :
      LET c == create_user_checks(users, cookie, Absent, body, now)
      IN  IF c.code # 200 THEN Serve("create_user", NoUser, c)
          ELSE /\ steps < MaxSteps
               /\ steps' = steps + 1
               /\ inflight' = inflight \cup {Pending(steps, c.actor, body, salt)}
               /\ UNCHANGED <<users, nextId, now, tokens, resp>>

\* a waiting create request commits and is answered
CreateCommit ==
    \E r \in inflight :
      LET o == create_user_commit(users, nextId, r.actor, r.body, r.salt)
      IN  /\ users' = o.db
          /\ nextId' = IF nextId \in DOMAIN o.db THEN nextId + 1 ELSE nextId
          /\ resp' = Response("create_user", NoUser, o)
          /\ inflight' = inflight \ {r}
          /\ UNCHANGED <<now, steps, tokens>>

NextRace == Login \/ CreateBegin \/ CreateCommit

SpecRace == Init /\ [][NextRace]_vars

\* ------------------------------------------------------------ properties
\* the credentials a client can send in the current state: every pair of
\* channels, and the pairs that use one channel
Creds == Channels(tokens) \X Channels(tokens)
OneChannel ==
    {<<c, Absent>> : c \in Channels(tokens)}
    \cup {<<Absent, b>> : b \in Channels(tokens)}

\* a token that decodes now: signed by the server and not expired
Valid(tok) == tok.sig = "ok" /\ tok.exp >= now

\* C1: a local password login (login and login_form) never succeeds, issues
\* no token and plants no cookie for an account that cannot log in
\* (is_active false, or status not ACTIVE, or is_locked).
C1_BlockedAccountNeverLogsIn ==
    (/\ resp.op \in {"login", "login_form"}
     /\ (resp.code = 200 \/ resp.token # NoTok \/ resp.set_cookie # NoTok))
    => can_login(users[resp.user])

\* C3: Google login never authenticates an account that cannot log in: no
\* token and no cookie for an existing account that is inactive, not
\* ACTIVE or locked.
C3_GoogleNeverAuthenticatesBlocked ==
    (/\ resp.op = "google_login"
     /\ (resp.code = 200 \/ resp.token # NoTok \/ resp.set_cookie # NoTok))
    => can_login(users[resp.user])

\* the account a token names, as a set: empty when it was removed
Named(tok) == {id \in DOMAIN users : IdStr(id) = tok.sub}

\* what resolving a token must give: the account it names when it is valid
\* and the account exists, 401 otherwise
Expect(tok) ==
    IF Valid(tok) /\ Named(tok) # {}
    THEN [code |-> 200, user |-> CHOOSE id \in Named(tok) : TRUE]
    ELSE [code |-> 401, user |-> NoUser]

\* the outcomes of the endpoints behind get_current_active_user for one
\* pair of credentials, over the bodies and ids the requests carry
GatedOutcomes(cookie, bearer) ==
    {read_user_me(users, cookie, bearer, now)}
    \cup {create_user(users, nextId, cookie, bearer, b, 1, now) : b \in CreateBodies}
    \cup {update_user(users, cookie, bearer, id, p, now) :
            id \in 1..nextId, p \in Patches}
    \cup {delete_user(users, cookie, bearer, id, now) : id \in 1..nextId}

ProtectedSame(db, i) ==
    /\ db[i].role = users[i].role
    /\ db[i].status = users[i].status
    /\ db[i].is_active = users[i].is_active

\* a patch the store takes once the protected fields are stripped: the body
\* is valid, no written field is null and the email is not another row's
Acceptable(user_in, id) ==
    /\ UserUpdateValid(user_in)
    /\ user_in.email # Null /\ user_in.full_name # Null
    /\ IsVal(user_in.email) =>
         \A j \in DOMAIN users \ {id} : users[j].email # user_in.email[2]

C4_CookiePresentWins ==
    \A c \in Creds :
      LET r == get_current_user(users, c[1], c[2], now)
      IN  /\ (c[1].kind # "absent" /\ ~(c[1].kind = "value" /\ Valid(c[1].tok)))
               => r.code = 401
          /\ (c[1].kind = "absent" /\ c[2].kind = "absent") => r.code = 401

\* C4 (amended): the token is the cookie's when the cookie is present with
\* a non-empty value, and the header's only when the cookie is absent or
\* empty; the first channel found wins, so an invalid or expired cookie
\* token is 401 whatever the header carries, and neither channel is 401.
C4_NonEmptyCookieWins ==
    \A c \in Creds :
      LET r == get_current_user(users, c[1], c[2], now)
      IN  /\ c[1].kind = "value" => r = Expect(c[1].tok)
          /\ (c[1].kind # "value" /\ c[2].kind = "value") => r = Expect(c[2].tok)
          /\ (c[1].kind # "value" /\ c[2].kind # "value") => r.code = 401

\* C4 witness: GET /users/me was answered 401 in a state where clients hold
\* an expired token and a valid token of existing accounts
C4_Witness ==
    /\ resp.op = "read_user_me" /\ resp.code = 401
    /\ \E r1, r2 \in tokens :
         /\ ~Valid(r1.tok) /\ Named(r1.tok) # {}
         /\ Valid(r2.tok) /\ Expect(r2.tok).code = 200

\* C5: a validly signed, unexpired token resolves only to the existing
\* account it names: 401 when no account has its subject id; and every
\* endpoint behind the active gate answers 403, changing nothing, while the
\* account is inactive, whenever the token was issued.
C5_ValidTokenNeedsLiveAccount ==
    /\ \A c \in Creds :
         LET got == oauth2_scheme(c[1], c[2])
             r == get_current_user(users, c[1], c[2], now)
             a == get_current_active_user(users, c[1], c[2], now)
         IN  (got.code = 200 /\ Valid(got.tok)) =>
               /\ r.code = 200 => r.user \in Named(got.tok)
               /\ Named(got.tok) = {} => r.code = 401 /\ a.code = 401
               /\ \A id \in Named(got.tok) : ~users[id].is_active => a.code = 403
    /\ \A c \in OneChannel :
         LET got == oauth2_scheme(c[1], c[2])
         IN  (got.code = 200 /\ Valid(got.tok)) =>
               /\ Named(got.tok) = {} =>
                    \A o \in GatedOutcomes(c[1], c[2]) : o.code = 401 /\ o.db = users
               /\ \A id \in Named(got.tok) :
                    ~users[id].is_active =>
                      \A o \in GatedOutcomes(c[1], c[2]) :
                        o.code = 403 /\ o.db = users

\* C5 witness: an account deactivated by DELETE presented a token that is
\* still valid and GET /users/me answered 403
C5_Witness ==
    /\ resp.op = "read_user_me" /\ resp.code = 403
    /\ users[resp.actor].status = "INACTIVE"
    /\ \E r \in tokens : r.subject = resp.actor /\ Valid(r.tok)

\* C6: for every account that is is_active with status ACTIVE, a login
\* with its username or its email and its correct password answers 200,
\* plants the cookie and returns a token that get_current_user resolves,
\* through either channel, to that account's id.
C6_ActiveLoginRoundTrip ==
    \A id \in DOMAIN users :
      (/\ users[id].is_active /\ users[id].status = "ACTIVE"
       /\ users[id].password_hash.kind = "bcrypt") =>
        \A ident \in {users[id].username, users[id].email} :
          \A o \in login(users, ident, users[id].password_hash.plain, now) :
            /\ o.code = 200
            /\ o.user = id
            /\ o.token # NoTok /\ o.set_cookie = o.token
            /\ get_current_user(o.db, Carry(o.token), Absent, now)
                 = [code |-> 200, user |-> id]
            /\ get_current_user(o.db, Absent, Carry(o.token), now)
                 = [code |-> 200, user |-> id]

\* C6 witness: an account other than the seeded one, active with status
\* ACTIVE, has logged in with its password and holds the token
C6_Witness ==
    /\ resp.op = "login" /\ resp.code = 200
    /\ users[resp.user].username = S_bob
    /\ users[resp.user].is_active /\ users[resp.user].status = "ACTIVE"
    /\ get_current_user(users, Carry(resp.token), Absent, now).user = resp.user

\* C8: DELETE by an ADMIN on its own id answers 400 and leaves the store
\* as it was, so the account stays active; DELETE by an active caller who
\* is not ADMIN answers 403 with no row changed.
C8_SelfDeleteRefused ==
    \A c \in OneChannel :
      LET cur == get_current_active_user(users, c[1], c[2], now)
      IN  cur.code = 200 =>
            \A id \in 1..nextId :
              LET o == delete_user(users, c[1], c[2], id, now)
              IN  /\ (users[cur.user].role = "ADMIN" /\ id = cur.user) =>
                       /\ o.code = 400 /\ o.db = users
                       /\ o.db[id].is_active /\ o.db[id].status = users[id].status
                  /\ users[cur.user].role # "ADMIN" =>
                       o.code = 403 /\ o.db = users

\* C8 witness: an ADMIN asked to delete itself, was answered 400 and is
\* still active
C8_Witness ==
    /\ resp.op = "delete_user" /\ resp.code = 400
    /\ resp.target = resp.actor
    /\ users[resp.actor].role = "ADMIN"
    /\ users[resp.actor].is_active /\ users[resp.actor].status = "ACTIVE"

\* the row with its two deactivation fields set aside
Rest(row) == [row EXCEPT !.is_active = FALSE, !.status = "INACTIVE"]

\* C9: DELETE by an ADMIN on another existing account, whatever its state,
\* answers 200 and leaves that row in the store with is_active false and
\* status INACTIVE, its other fields and the other rows as they were; sent
\* again to the account now inactive it answers 200 again and the store
\* stays the same.
C9_DeactivateIdempotent ==
    \A c \in OneChannel :
      LET cur == get_current_active_user(users, c[1], c[2], now)
      IN  (cur.code = 200 /\ users[cur.user].role = "ADMIN") =>
            \A id \in DOMAIN users \ {cur.user} :
              LET o == delete_user(users, c[1], c[2], id, now)
                  again == delete_user(o.db, c[1], c[2], id, now)
              IN  /\ o.code = 200
                  /\ DOMAIN o.db = DOMAIN users
                  /\ ~o.db[id].is_active /\ o.db[id].status = "INACTIVE"
                  /\ o.db[id] = Rest(users[id])
                  /\ \A j \in DOMAIN users \ {id} : o.db[j] = users[j]
                  /\ again.code = 200
                  /\ again.db = o.db

\* C9 witness: an ADMIN has deleted another account with success; the row
\* is still stored, inactive, so the same request can be sent again
C9_Witness ==
    /\ resp.op = "delete_user" /\ resp.code = 200
    /\ resp.target # resp.actor
    /\ resp.target \in DOMAIN users
    /\ ~users[resp.target].is_active /\ users[resp.target].status = "INACTIVE"
    /\ delete_user(users, Carry(CHOOSE x \in Presentable(tokens) :
                          get_current_active_user(users, Carry(x), Absent, now)
                            = [code |-> 200, user |-> resp.actor]),
                   Absent, resp.target, now).code = 200

\* C10: no two accounts have usernames that differ only in letter case,
\* and a create whose username equals a stored one ignoring case is
\* answered 400 and adds no row.
C10_UsernamesUniqueIgnoringCase ==
    /\ \A i, j \in DOMAIN users :
         i # j => StrLower(users[i].username) # StrLower(users[j].username)
    /\ \A c \in OneChannel, b \in CreateBodies :
         LET o == create_user(users, nextId, c[1], c[2], b, 1, now)
         IN  (\E i \in DOMAIN users :
                StrLower(users[i].username) = StrLower(b.username))
             => o.code # 200 /\ o.db = users

\* the lifetime a caller of create_access_token asks for: the override
\* when one is given, the default otherwise
AskedLifetime(expires_delta) ==
    IF expires_delta.given THEN expires_delta.minutes
    ELSE ACCESS_TOKEN_EXPIRE_MINUTES

\* C7: a token issued for a subject decodes to that subject while the clock
\* has not passed the time of issue plus the lifetime asked for (the
\* default, or the override), and fails to decode at every later time; it
\* never decodes to another subject.
C7_TokenRoundTripAndExpiry ==
    \A r \in tokens :
      LET expiry == r.at + AskedLifetime(r.expires_delta)
          sub == token_subject(r.tok, now)
      IN  /\ now <= expiry => sub = IdStr(r.subject)
          /\ now > expiry => sub = NoSub
          /\ sub \in {NoSub, IdStr(r.subject)}

\* C11: when create requests interleave so that both pass the existence
\* queries before either commits, the store holds one account per username
\* and per email, and the request that loses is answered 400 like a request
\* refused by the queries, never with an unhandled fault (500).
C11_RaceLoserGetsConflict ==
    /\ UniqueOk(users)
    /\ resp.op = "create_user" => resp.code \in {200, 400, 401, 403, 422}

\* C12: role gating is exact and closed: a well-formed request of an
\* active resolved account to a role-gated operation is admitted exactly
\* when its role is in the operation's allowed set and is answered 403
\* otherwise: list users {ADMIN, MANAGER}; create user, deactivate user and
\* update-homepage {ADMIN}.
C12_RoleGatingExact ==
    (/\ resp.actor # NoUser
     /\ resp.code \notin {0, 401, 422}
     /\ users[resp.actor].is_active) =>
      /\ resp.op = "list_users" =>
           (resp.code # 403 <=> users[resp.actor].role \in {"ADMIN", "MANAGER"})
      /\ resp.op \in {"create_user", "delete_user", "update_homepage"} =>
           (resp.code # 403 <=> users[resp.actor].role = "ADMIN")

\* the plaintext passwords a client may try
Plaintexts == {P_admin, P_good, P_weak, P_sentinel}

\* a password that is not the one the stored hash was made from; a hash
\* that is not a bcrypt hash was made from none
WrongFor(password, hashed_password) ==
    hashed_password.kind = "bcrypt" => password # hashed_password.plain

\* an outcome that establishes nothing: no token, no cookie, no account in
\* the response, the store as it was (last_login included)
NothingEstablished(o) ==
    /\ o.db = users
    /\ o.token = NoTok /\ o.set_cookie = NoTok
    /\ o.user = NoUser

\* C13: a failed authentication attempt establishes nothing: login with a
\* wrong password for an existing account answers 401, and a Google login
\* whose code exchange or identity verification fails answers 400; in both
\* cases no token is issued, no cookie is set, no account is created and
\* every stored account, last_login included, is unchanged.
C13_FailedLoginEstablishesNothing ==
    /\ \A id \in DOMAIN users, password \in Plaintexts :
         WrongFor(password, users[id].password_hash) =>
           \A ident \in {users[id].username, users[id].email} :
             \A o \in login(users, ident, password, now) :
               o.code = 401 /\ NothingEstablished(o)
    /\ \A g \in GoogleResults :
         ~g.ok => \A o \in google_login(users, nextId, g, now) :
                    o.code = 400 /\ NothingEstablished(o)

\* C13 witness: a login was answered 401 in a state where every name a
\* login may carry is the username or email of a stored account, so the
\* password was wrong, and an earlier login has stamped last_login
C13_Witness ==
    /\ resp.op = "login" /\ resp.code = 401
    /\ \A n \in LoginNames :
         \E i \in DOMAIN users : users[i].username = n \/ users[i].email = n
    /\ \E i \in DOMAIN users : users[i].last_login # NoTime
    /\ resp.token = NoTok /\ resp.set_cookie = NoTok

\* the accounts Google login provisioned: those that hold the sentinel
Sentinel(db) == {i \in DOMAIN db : db[i].password_hash = GoogleSentinelHash}

\* a Google login for an unknown email, when it succeeds, adds one row:
\* USER, ACTIVE, is_active, holding the sentinel
ProvisionsOne ==
    \A g \in GoogleResults :
      (/\ g.ok /\ IsVal(g.email)
       /\ \A i \in DOMAIN users : users[i].email # g.email[2]) =>
        \A o \in google_login(users, nextId, g, now) :
          o.code = 200 =>
            /\ DOMAIN o.db = DOMAIN users \cup {nextId}
            /\ nextId \notin DOMAIN users
            /\ o.user = nextId
            /\ o.db[nextId].email = g.email[2]
            /\ o.db[nextId].role = "USER"
            /\ o.db[nextId].status = "ACTIVE"
            /\ o.db[nextId].is_active
            /\ o.db[nextId].password_hash = GoogleSentinelHash
            /\ \A i \in DOMAIN users : o.db[i] = users[i]

\* no plaintext logs in to an account that holds the sentinel
SentinelNeverLogsIn ==
    \A id \in Sentinel(users), password \in Plaintexts :
      /\ ~verify_password(password, users[id].password_hash)
      /\ \A ident \in {users[id].username, users[id].email} :
           /\ \A o \in login(users, ident, password, now) :
                o.code = 401 /\ o.token = NoTok /\ o.set_cookie = NoTok
           /\ \A o \in login_form(users, ident, password, now) :
                o.code = 401 /\ o.token = NoTok /\ o.set_cookie = NoTok

\* a step leaves the sentinel in every stored account that holds it
KeepsSentinel ==
    \A id \in Sentinel(users) :
      id \in DOMAIN users' => users'[id].password_hash = GoogleSentinelHash

\* C14: a successful Google login whose verified email matches no account
\* creates exactly one account with role USER, status ACTIVE, is_active
\* true and the sentinel password hash; no operation replaces the sentinel
\* of a stored account, and a local password login to an account that
\* holds it fails for every plaintext.
C14_SentinelNeverVerifies ==
    /\ [](ProvisionsOne /\ SentinelNeverLogsIn)
    /\ [][KeepsSentinel]_vars

\* C14 witness: an account provisioned by Google has since been updated
\* and still holds the sentinel; every stored account holds it, and a
\* password login was answered 401
C14_Witness ==
    /\ resp.op \in {"login", "login_form"} /\ resp.code = 401
    /\ users # <<>>
    /\ Sentinel(users) = DOMAIN users
    /\ \E i \in DOMAIN users :
         /\ users[i].username = S_bob /\ users[i].email = E_bob
         /\ users[i].full_name = N_new
         /\ users[i].role = "USER" /\ users[i].status = "ACTIVE" /\ users[i].is_active

\* C15: logout always answers 200, with or without a session, changes no
\* stored account and nothing the server keeps of the tokens it issued,
\* and only clears the client's cookie; a token issued before it still
\* resolves to its account, through the bearer header or a cookie, until
\* the token's own expiry.
C15_LogoutDoesNotRevoke ==
    LET o == logout(users)
    IN  /\ o.code = 200
        /\ o.db = users
        /\ o.token = NoTok /\ o.set_cookie = ClearedCookie
        /\ Remember(tokens, o, now) = tokens
        /\ \A r \in tokens :
             /\ get_current_user(o.db, Absent, Carry(r.tok), now) = Expect(r.tok)
             /\ get_current_user(o.db, Carry(r.tok), Absent, now) = Expect(r.tok)
        /\ resp.op = "logout" =>
             /\ resp.code = 200 /\ resp.set_cookie = ClearedCookie
             /\ \A r \in tokens :
                  (Valid(r.tok) /\ Named(r.tok) # {}) =>
                    /\ get_current_user(users, Absent, Carry(r.tok), now).code = 200
                    /\ get_current_user(users, Absent, Carry(r.tok), now).user
                         \in Named(r.tok)

\* C15 witness: logout was answered and a token issued before it is still
\* unexpired and resolves to its account
C15_Witness ==
    /\ resp.op = "logout" /\ resp.code = 200
    /\ \E r \in tokens :
         /\ Valid(r.tok)
         /\ get_current_user(users, Absent, Carry(r.tok), now)
              = [code |-> 200, user |-> r.subject]

\* C16: a create by an ADMIN that asks for status ACTIVE stores the new
\* account with status ACTIVE and is_active true; every account stored by
\* create that has status ACTIVE has is_active true; and the stored hash is
\* the hash of the supplied password, which passes verify_password.
C16_CreateDerivesActiveFlag ==
    \A c \in OneChannel :
      LET cur == get_current_active_user(users, c[1], c[2], now)
      IN  (cur.code = 200 /\ users[cur.user].role = "ADMIN") =>
            \A b \in CreateBodies :
              LET o == create_user(users, nextId, c[1], c[2], b, 1, now)
              IN  o.code = 200 =>
                    /\ ("status" \in DOMAIN b /\ b.status = "ACTIVE") =>
                         /\ o.db[nextId].status = "ACTIVE"
                         /\ o.db[nextId].is_active
                    /\ o.db[nextId].status = "ACTIVE" => o.db[nextId].is_active
                    /\ verify_password(b.password, o.db[nextId].password_hash)

\* C17: no request an ADMIN makes on its own id, DELETE or PUT with any
\* patch, leaves that ADMIN's account with is_active false or a status
\* other than ACTIVE; so an ADMIN that is the only active one cannot by
\* its own request reach a store with no active ADMIN.
C17_AdminCannotDeactivateItself ==
    \A c \in OneChannel :
      LET cur == get_current_active_user(users, c[1], c[2], now)
          self == cur.user
      IN  (/\ cur.code = 200
           /\ users[self].role = "ADMIN"
           /\ users[self].status = "ACTIVE") =>
            /\ LET d == delete_user(users, c[1], c[2], self, now)
               IN  d.db[self].is_active /\ d.db[self].status = "ACTIVE"
            /\ \A p \in Patches :
                 LET o == update_user(users, c[1], c[2], self, p, now)
                 IN  /\ o.db[self].is_active
                     /\ o.db[self].status = "ACTIVE"
                     /\ \E i \in DOMAIN o.db :
                          o.db[i].role = "ADMIN" /\ o.db[i].is_active
====
